---- MODULE Spec2Model ----
(***************************************************************************)
(* TV1D_denoise (src/src/waffles/utils/denoising/tv1d_cpp/tv1ddenoise.c):  *)
(* the taut-string total-variation denoiser, as a state machine whose      *)
(* program counter is the source line about to run.                        *)
(*                                                                         *)
(* A call's state is one record (its arguments, locals, heap blocks and    *)
(* pc); st maps each call in flight to its record, so that several calls   *)
(* can be interleaved.  Every `double` is an exact rational <<num, den>>;  *)
(* a store into the float buffer output[] goes through ToFloat, which is   *)
(* exact under the "exact" arithmetic and rounds to the float grid under   *)
(* the "float" arithmetic.  An `unsigned int` is kept as its 32-bit        *)
(* pattern read in two's complement, so that 0 - 1 is the pattern of       *)
(* UINT_MAX and comparisons go through ULt.                                *)
(***************************************************************************)
EXTENDS Integers, Sequences, FiniteSets, TLC

VARIABLES st

vars == <<st>>

(* ------------------------------ bounds -------------------------------- *)

\* Longest input buffer.
MaxLen == 5

\* The sample values: floats that the float grid holds exactly.
Values == {0, 1, 2}

(* ------------------------- exact rationals ---------------------------- *)

Abs(x) == IF x < 0 THEN 0 - x ELSE x

\* Greatest common divisor, as a function so that it is applied to values.
GcdOf[a \in Nat, b \in Nat] == IF b = 0 THEN a ELSE GcdOf[b, a % b]

Gcd(a, b) == GcdOf[a, b]

NormOf[n \in Int, d \in Nat] ==
    LET g == Gcd(Abs(n), d) IN <<n \div g, d \div g>>

\* The rational n/d (d > 0) in lowest terms.
Norm(n, d) == NormOf[n, d]

R(k) == <<k, 1>>

RAdd(a, b) == Norm(a[1] * b[2] + b[1] * a[2], a[2] * b[2])

RSub(a, b) == Norm(a[1] * b[2] - b[1] * a[2], a[2] * b[2])

RMul(a, b) == Norm(a[1] * b[1], a[2] * b[2])

\* a / b for b > 0.
RDiv(a, b) == Norm(a[1] * b[2], a[2] * b[1])

RLe(a, b) == a[1] * b[2] <= b[1] * a[2]

RLt(a, b) == a[1] * b[2] < b[1] * a[2]

RAbs(a) == <<Abs(a[1]), a[2]>>

\* A double or float that holds no value yet.
Uninit == <<0, 0>>

(* --------------------------- machine types ---------------------------- *)

\* Unsigned comparison a < b of two 32-bit patterns.
ULt(a, b) == IF (a < 0) = (b < 0) THEN a < b ELSE b < 0

ULe(a, b) == ~ULt(b, a)

\* (double) of an unsigned int.  The patterns below zero stand for values
\* from 2^31 up; none is converted in a reachable state (NoWrappedOperand).
UToReal(u) == R(u)

\* An unsigned local that holds no value yet (indjseg2, ind at line 16).
Unset == 0 - 1000

\* Denominator of the float grid: a float holds a multiple of 1/FloatGrid,
\* a double any rational.
FloatGrid == 16

\* v rounded to the nearest float (ties upwards).
RoundFloat(v) ==
    Norm((2 * v[1] * FloatGrid + v[2]) \div (2 * v[2]), FloatGrid)

\* The value a float object holds after v is stored into it.
ToFloat(s, v) == IF s.arith = "exact" THEN v ELSE RoundFloat(v)

(* ------------------------------ the call ------------------------------ *)

\* The smoothing parameters tried: -1, 0, 1/2, 1 and 3/2.
Lambdas == {<<0 - 1, 1>>, <<0, 1>>, <<1, 2>>, <<1, 1>>, <<3, 2>>}

Inputs == UNION {[0..(n - 1) -> Values] : n \in 0..MaxLen}

\* What the caller keeps of its previous call on the same input: nothing.
NoPrev == [lambda |-> Uninit, output |-> <<>>]

\* The state at entry of TV1D_denoise(input, width, lambda).  pushes, folds
\* and commits count the ++j_low / ++j_up, the j_low-- / j_up-- and the
\* ++jseg the call has executed.
Entry(in, lam, ar) ==
    [pc |-> "L6", arith |-> ar,
     input |-> in, width |-> Cardinality(DOMAIN in), lambda |-> lam,
     output |-> <<>>, out_alloc |-> "none",
     indstart_low |-> <<>>, low_alloc |-> "none",
     indstart_up |-> <<>>, up_alloc |-> "none",
     ic |-> Unset,
     j_low |-> Unset, j_up |-> Unset, jseg |-> Unset, indjseg |-> Unset,
     i |-> Unset, indjseg2 |-> Unset, ind |-> Unset,
     output_low_first |-> Uninit, output_low_curr |-> Uninit,
     output_up_first |-> Uninit, output_up_curr |-> Uninit,
     twolambda |-> Uninit,
     ub |-> {},
     pushes |-> 0, folds |-> 0, commits |-> 0,
     prev |-> NoPrev]

\* input[k] read as a double.
In(s, k) == R(s.input[k])

\* output[k] = v.
WrOut(s, k, v) == [s.output EXCEPT ![k] = ToFloat(s, v)]

\* Mutant: the running mean counts one sample too many.
MeanStepOffByOne(cur, x, cnt) ==
    RAdd(cur, RDiv(RSub(x, cur), UToReal(cnt + 1)))

\* Mutant: the running mean forgets the samples before the current one.
MeanStepForgetful(cur, x, cnt) == RAdd(cur, RDiv(RSub(x, cur), R(1)))

\* cur += (x - cur) / cnt, cnt an unsigned int.
MeanStep(cur, x, cnt) == RAdd(cur, RDiv(RSub(x, cur), UToReal(cnt)))

\* Mutant: the folded segment is weighted by the whole run, not its length.
WeightStepWholeRun(cur, x, num, den) ==
    RAdd(cur, RMul(RSub(x, cur), RDiv(UToReal(den - 1), UToReal(den))))

\* cur += (x - cur) * ((double)num / den), num and den unsigned ints.
WeightStep(cur, x, num, den) ==
    RAdd(cur, RMul(RSub(x, cur), RDiv(UToReal(num), UToReal(den))))

\* Mutant: the difference is taken the other way round.
PushStepReversed(cur, x, num, den) ==
    RAdd(cur, RMul(RSub(x, cur), RDiv(UToReal(num), UToReal(den))))

\* cur += (cur - x) * ((double)num / den).
PushStep(cur, x, num, den) ==
    RAdd(cur, RMul(RSub(cur, x), RDiv(UToReal(num), UToReal(den))))

\* The call slots.
Calls == {1, 2}

Set(c, s) == st' = [st EXCEPT ![c] = s]

(* ------------------ lines 6-12: output, lambda == 0 ------------------- *)

LambdaIsZero(s) == s.lambda[1] = 0

NewOutput(c) ==
    LET s == st[c] IN
    /\ s.pc = "L6"
    /\ Set(c, [s EXCEPT !.out_alloc = "live",
                        !.output = [k \in 0..(s.width - 1) |-> Uninit],
                        !.ic = IF LambdaIsZero(s) THEN 0 ELSE s.ic,
                        !.pc = IF LambdaIsZero(s) THEN "L8" ELSE "L14"])

\* Mutant: every position is copied from input[0].
CopyValueFirst(s) == s.input[0]

\* input[i] of line 9.
CopyValue(s) == s.input[s.ic]

CopyStep(c) ==
    LET s == st[c] IN
    /\ s.pc = "L8"
    /\ ULt(s.ic, s.width)
    /\ Set(c, [s EXCEPT !.output = WrOut(s, s.ic, R(CopyValue(s))),
                        !.ic = s.ic + 1])

CopyReturn(c) ==
    LET s == st[c] IN
    /\ s.pc = "L8"
    /\ ~ULt(s.ic, s.width)
    /\ Set(c, [s EXCEPT !.pc = "done"])

(* ---------------- lines 14-25: scratch arrays, seeding ---------------- *)

AllocScratch(c) ==
    LET s == st[c] IN
    /\ s.pc = "L14"
    /\ Set(c, [s EXCEPT !.low_alloc = "live", !.up_alloc = "live",
                        !.indstart_low = [k \in 0..(s.width - 1) |-> Unset],
                        !.indstart_up = [k \in 0..(s.width - 1) |-> Unset],
                        !.j_low = 0, !.j_up = 0, !.jseg = 0, !.indjseg = 0,
                        !.i = 1,
                        !.pc = "L17"])

\* Mutant: lines 17-21 with both envelopes seeded at input[0] itself.
SeededBare(s, v) ==
    [s EXCEPT !.output_low_first = v,
              !.output_low_curr = v,
              !.output_up_first = v,
              !.output_up_curr = v,
              !.twolambda = RMul(R(2), s.lambda),
              !.pc = "L22"]

\* Mutant: lines 17-21 with twolambda = lambda.
SeededNarrow(s, v) ==
    [s EXCEPT !.output_low_first = RSub(v, s.lambda),
              !.output_low_curr = RSub(v, s.lambda),
              !.output_up_first = RAdd(v, s.lambda),
              !.output_up_curr = RAdd(v, s.lambda),
              !.twolambda = s.lambda,
              !.pc = "L22"]

\* Lines 17-21 with input[0] read as v.
Seeded(s, v) ==
    [s EXCEPT !.output_low_first = RSub(v, s.lambda),
              !.output_low_curr = RSub(v, s.lambda),
              !.output_up_first = RAdd(v, s.lambda),
              !.output_up_curr = RAdd(v, s.lambda),
              !.twolambda = RMul(R(2), s.lambda),
              !.pc = "L22"]

Seed(c) ==
    LET s == st[c] IN
    /\ s.pc = "L17"
    /\ 0 \in DOMAIN s.input
    /\ Set(c, Seeded(s, In(s, 0)))

\* width == 0: input[0] lies outside the buffer; the read yields whatever
\* the memory there holds ...
SeedOutOfBounds(c) ==
    LET s == st[c] IN
    /\ s.pc = "L17"
    /\ 0 \notin DOMAIN s.input
    /\ \E v \in Values :
         Set(c, [Seeded(s, R(v)) EXCEPT !.ub = s.ub \cup {"read input[0]"}])

\* ... or faults.
SeedFault(c) ==
    LET s == st[c] IN
    /\ s.pc = "L17"
    /\ 0 \notin DOMAIN s.input
    /\ Set(c, [s EXCEPT !.ub = s.ub \cup {"read input[0]"}, !.pc = "fault"])

\* Mutant: the upper seed is returned instead of the sample.
SingleValueSeed(s) == s.output_up_first

\* input[0] of line 22.
SingleValue(s) == In(s, 0)

\* Line 22, width == 1.
SingleReturn(c) ==
    LET s == st[c] IN
    /\ s.pc = "L22"
    /\ s.width = 1
    /\ Set(c, [s EXCEPT !.output = WrOut(s, 0, SingleValue(s)), !.pc = "done"])

\* Mutant: lines 23-24 without the width-- of line 25.
InitScratchFullWidth(c) ==
    LET s == st[c] IN
    /\ s.pc = "L22"
    /\ s.width # 1
    /\ 0 \in DOMAIN s.indstart_low
    /\ Set(c, [s EXCEPT !.indstart_low = [s.indstart_low EXCEPT ![0] = 0],
                        !.indstart_up = [s.indstart_up EXCEPT ![0] = 0],
                        !.pc = "L26"])

\* Lines 23-25.
InitScratch(c) ==
    LET s == st[c] IN
    /\ s.pc = "L22"
    /\ s.width # 1
    /\ 0 \in DOMAIN s.indstart_low
    /\ Set(c, [s EXCEPT !.indstart_low = [s.indstart_low EXCEPT ![0] = 0],
                        !.indstart_up = [s.indstart_up EXCEPT ![0] = 0],
                        !.width = s.width - 1,
                        !.pc = "L26"])

\* Lines 23-25 with width == 0: both stores land behind a zero-length
\* block, and width-- wraps to UINT_MAX.
InitScratchOutOfBounds(c) ==
    LET s == st[c] IN
    /\ s.pc = "L22"
    /\ s.width # 1
    /\ 0 \notin DOMAIN s.indstart_low
    /\ Set(c, [s EXCEPT !.ub = s.ub \cup {"write indstart_low[0]",
                                         "write indstart_up[0]"},
                        !.width = s.width - 1,
                        !.pc = "L26"])

(* ------------------- shared pieces of the main pass ------------------- *)

\* The state with s.pc replaced.
At(s, l) == [s EXCEPT !.pc = l]

\* Mutant: the loop goes round without i++.
NextSampleStuck(s) == [s EXCEPT !.pc = "L26"]

\* i++ and back to the loop test of line 26.
NextSample(s) == [s EXCEPT !.i = s.i + 1, !.pc = "L26"]

\* (j_up>jseg)&&(output_up_curr<=output[ind=indstart_up[j_up-1]])
UpFoldCond(s) ==
    /\ ULt(s.jseg, s.j_up)
    /\ RLe(s.output_up_curr, s.output[s.indstart_up[s.j_up - 1]])

\* Mutant: the fold-back leaves the folded breakpoint on the list.
UpFoldedKept(s) ==
    LET ind == s.indstart_up[s.j_up - 1] IN
    [s EXCEPT !.ind = ind,
              !.output_up_curr =
                  WeightStep(s.output_up_curr, s.output[ind],
                             s.indstart_up[s.j_up] - ind, s.i - ind + 1),
              !.folds = s.folds + 1]

\* One turn of the fold-back of the upper envelope (lines 31-33).
UpFolded(s) ==
    LET ind == s.indstart_up[s.j_up - 1] IN
    [s EXCEPT !.ind = ind,
              !.output_up_curr =
                  WeightStep(s.output_up_curr, s.output[ind],
                             s.indstart_up[s.j_up] - ind, s.i - ind + 1),
              !.j_up = s.j_up - 1,
              !.folds = s.folds + 1]

\* The failing test of that loop still assigns ind when j_up > jseg.
UpFoldLeft(s) ==
    [s EXCEPT !.ind = IF ULt(s.jseg, s.j_up)
                        THEN s.indstart_up[s.j_up - 1] ELSE s.ind]

\* (j_low>jseg)&&(output_low_curr>=output[ind=indstart_low[j_low-1]])
\* Mutant: the test of line 49 with > in place of >=.
LowFoldCondStrict(s) ==
    /\ ULt(s.jseg, s.j_low)
    /\ RLt(s.output[s.indstart_low[s.j_low - 1]], s.output_low_curr)

LowFoldCond(s) ==
    /\ ULt(s.jseg, s.j_low)
    /\ RLe(s.output[s.indstart_low[s.j_low - 1]], s.output_low_curr)

\* One turn of the fold-back of the lower envelope (lines 49-51).
LowFolded(s) ==
    LET ind == s.indstart_low[s.j_low - 1] IN
    [s EXCEPT !.ind = ind,
              !.output_low_curr =
                  WeightStep(s.output_low_curr, s.output[ind],
                             s.indstart_low[s.j_low] - ind, s.i - ind + 1),
              !.j_low = s.j_low - 1,
              !.folds = s.folds + 1]

LowFoldLeft(s) ==
    [s EXCEPT !.ind = IF ULt(s.jseg, s.j_low)
                        THEN s.indstart_low[s.j_low - 1] ELSE s.ind]

\* (output_up_curr<=output_low_first)&&(jseg<j_low)
LowCommitCond(s) ==
    /\ RLe(s.output_up_curr, s.output_low_first)
    /\ ULt(s.jseg, s.j_low)

\* Lines 36-38: the first pending lower segment becomes final.
LowCommitted(s) ==
    LET indjseg2 == s.indstart_low[s.jseg + 1] IN
    [s EXCEPT !.jseg = s.jseg + 1,
              !.commits = s.commits + 1,
              !.indjseg2 = indjseg2,
              !.output_up_curr =
                  PushStep(s.output_up_curr, s.output_low_first,
                           indjseg2 - s.indjseg, s.i - indjseg2 + 1)]

\* (output_low_curr>=output_up_first)&&(jseg<j_up)
UpCommitCond(s) ==
    /\ RLe(s.output_up_first, s.output_low_curr)
    /\ ULt(s.jseg, s.j_up)

\* Mutant: lines 54-56 without the update of output_low_curr.
UpCommittedUnweighted(s) ==
    LET indjseg2 == s.indstart_up[s.jseg + 1] IN
    [s EXCEPT !.jseg = s.jseg + 1,
              !.commits = s.commits + 1,
              !.indjseg2 = indjseg2]

\* Lines 54-56: the first pending upper segment becomes final.
UpCommitted(s) ==
    LET indjseg2 == s.indstart_up[s.jseg + 1] IN
    [s EXCEPT !.jseg = s.jseg + 1,
              !.commits = s.commits + 1,
              !.indjseg2 = indjseg2,
              !.output_low_curr =
                  PushStep(s.output_low_curr, s.output_up_first,
                           indjseg2 - s.indjseg, s.i - indjseg2 + 1)]

\* Mutant: the fill also clears the input sample at the same index.
FilledInPlace(s, v) ==
    [s EXCEPT !.output = WrOut(s, s.indjseg, v),
              !.input = [s.input EXCEPT ![s.indjseg] = 0],
              !.indjseg = s.indjseg + 1]

\* output[indjseg++] = v.
Filled(s, v) ==
    [s EXCEPT !.output = WrOut(s, s.indjseg, v), !.indjseg = s.indjseg + 1]

\* output_low_first=output[indjseg].
LowFirstReloaded(s) == [s EXCEPT !.output_low_first = s.output[s.indjseg]]

\* output_up_first=output[indjseg].
UpFirstReloaded(s) == [s EXCEPT !.output_up_first = s.output[s.indjseg]]

\* indjseg2=indstart_low[++jseg].
LowSegTaken(s) ==
    [s EXCEPT !.jseg = s.jseg + 1, !.commits = s.commits + 1,
              !.indjseg2 = s.indstart_low[s.jseg + 1]]

\* indjseg2=indstart_up[++jseg].
UpSegTaken(s) ==
    [s EXCEPT !.jseg = s.jseg + 1, !.commits = s.commits + 1,
              !.indjseg2 = s.indstart_up[s.jseg + 1]]

(* --------------------- line 26: the loop test ------------------------- *)

InLoop(s) == s.pc = "L26" /\ ULt(s.i, s.width) /\ s.i \in DOMAIN s.input

LoopExit(c) ==
    LET s == st[c] IN
    /\ s.pc = "L26"
    /\ ~ULt(s.i, s.width)
    /\ Set(c, At(s, "L84"))

\* width wrapped to UINT_MAX (width == 0 at entry): the loop runs on through
\* the memory behind the buffers, with any outcome.
LoopOutOfBounds(c) ==
    LET s == st[c] IN
    /\ s.pc = "L26"
    /\ ULt(s.i, s.width)
    /\ s.i \notin DOMAIN s.input
    /\ Set(c, [s EXCEPT !.ub = s.ub \cup {"read input[i]"},
                        !.pc = "undefined"])

(* ------------- lines 27-44: the sample is inside the band ------------- *)

SampleInBand(c) ==
    LET s == st[c] IN
    /\ InLoop(s)
    /\ RLe(s.output_low_curr, In(s, s.i))
    /\ RLe(In(s, s.i), s.output_up_curr)
    /\ Set(c, [s EXCEPT !.output_up_curr =
                            MeanStep(s.output_up_curr, In(s, s.i),
                                     s.i - s.indstart_up[s.j_up] + 1),
                        !.output = WrOut(s, s.indjseg, s.output_up_first),
                        !.pc = "L31"])

UpFold_31(c) ==
    LET s == st[c] IN
    /\ s.pc = "L31"
    /\ UpFoldCond(s)
    /\ Set(c, UpFolded(s))

\* The loop of line 31 ends: line 34, and line 44 when j_up != jseg.
UpFoldEnd_31(c) ==
    LET s == st[c]
        t == UpFoldLeft(s) IN
    /\ s.pc = "L31"
    /\ ~UpFoldCond(s)
    /\ Set(c, IF s.j_up = s.jseg
                THEN At(t, "L35")
                ELSE [t EXCEPT !.output =
                                   WrOut(s, s.indstart_up[s.j_up],
                                         s.output_up_curr),
                               !.pc = "L47"])

LowCommit_35(c) ==
    LET s == st[c] IN
    /\ s.pc = "L35"
    /\ LowCommitCond(s)
    /\ Set(c, At(LowCommitted(s), "L39"))

Fill_39(c) ==
    LET s == st[c] IN
    /\ s.pc = "L39"
    /\ ULt(s.indjseg, s.indjseg2)
    /\ Set(c, Filled(s, s.output_low_first))

FillEnd_39(c) ==
    LET s == st[c] IN
    /\ s.pc = "L39"
    /\ ~ULt(s.indjseg, s.indjseg2)
    /\ Set(c, At(LowFirstReloaded(s), "L35"))

\* Lines 42-43.
LowCommitEnd_35(c) ==
    LET s == st[c] IN
    /\ s.pc = "L35"
    /\ ~LowCommitCond(s)
    /\ Set(c, [s EXCEPT !.output_up_first = s.output_up_curr,
                        !.j_up = s.jseg,
                        !.indstart_up = [s.indstart_up EXCEPT
                                           ![s.jseg] = s.indjseg],
                        !.pc = "L47"])

(* ------------ lines 45-46: the sample is above the band --------------- *)

\* Mutant: line 46 without the store into output[i].
SampleAboveNoStore(c) ==
    LET s == st[c] IN
    /\ InLoop(s)
    /\ RLe(s.output_low_curr, In(s, s.i))
    /\ ~RLe(In(s, s.i), s.output_up_curr)
    /\ Set(c, [s EXCEPT !.j_up = s.j_up + 1,
                        !.pushes = s.pushes + 1,
                        !.indstart_up = [s.indstart_up EXCEPT
                                           ![s.j_up + 1] = s.i],
                        !.output_up_curr = ToFloat(s, In(s, s.i)),
                        !.pc = "L47"])

SampleAbove(c) ==
    LET s == st[c] IN
    /\ InLoop(s)
    /\ RLe(s.output_low_curr, In(s, s.i))
    /\ ~RLe(In(s, s.i), s.output_up_curr)
    /\ Set(c, [s EXCEPT !.j_up = s.j_up + 1,
                        !.pushes = s.pushes + 1,
                        !.indstart_up = [s.indstart_up EXCEPT
                                           ![s.j_up + 1] = s.i],
                        !.output = WrOut(s, s.i, In(s, s.i)),
                        !.output_up_curr = ToFloat(s, In(s, s.i)),
                        !.pc = "L47"])

(* ------------- lines 47-62: the lower envelope follows ---------------- *)

\* Mutant: line 48 as output[0] = output_low_first.
LowUpdateAtZero(c) ==
    LET s == st[c] IN
    /\ s.pc = "L47"
    /\ Set(c, [s EXCEPT !.output_low_curr =
                            MeanStep(s.output_low_curr, In(s, s.i),
                                     s.i - s.indstart_low[s.j_low] + 1),
                        !.output = WrOut(s, 0, s.output_low_first),
                        !.pc = "L49"])

LowUpdate(c) ==
    LET s == st[c] IN
    /\ s.pc = "L47"
    /\ Set(c, [s EXCEPT !.output_low_curr =
                            MeanStep(s.output_low_curr, In(s, s.i),
                                     s.i - s.indstart_low[s.j_low] + 1),
                        !.output = WrOut(s, s.indjseg, s.output_low_first),
                        !.pc = "L49"])

LowFold_49(c) ==
    LET s == st[c] IN
    /\ s.pc = "L49"
    /\ LowFoldCond(s)
    /\ Set(c, LowFolded(s))

\* The loop of line 49 ends: line 52, and line 62 when j_low != jseg.
LowFoldEnd_49(c) ==
    LET s == st[c]
        t == LowFoldLeft(s) IN
    /\ s.pc = "L49"
    /\ ~LowFoldCond(s)
    /\ Set(c, IF s.j_low = s.jseg
                THEN At(t, "L53")
                ELSE NextSample([t EXCEPT !.output =
                                   WrOut(s, s.indstart_low[s.j_low],
                                         s.output_low_curr)]))

UpCommit_53(c) ==
    LET s == st[c] IN
    /\ s.pc = "L53"
    /\ UpCommitCond(s)
    /\ Set(c, At(UpCommitted(s), "L57"))

Fill_57(c) ==
    LET s == st[c] IN
    /\ s.pc = "L57"
    /\ ULt(s.indjseg, s.indjseg2)
    /\ Set(c, Filled(s, s.output_up_first))

FillEnd_57(c) ==
    LET s == st[c] IN
    /\ s.pc = "L57"
    /\ ~ULt(s.indjseg, s.indjseg2)
    /\ Set(c, At(UpFirstReloaded(s), "L53"))

\* Lines 60-61.
\* Mutant: line 60 with output_up_first + twolambda.
UpCommitEnd_53Above(c) ==
    LET s == st[c] IN
    /\ s.pc = "L53"
    /\ ~UpCommitCond(s)
    /\ Set(c, NextSample(
           [s EXCEPT !.j_low = s.jseg,
                     !.indstart_low = [s.indstart_low EXCEPT
                                         ![s.jseg] = s.indjseg],
                     !.output_low_first =
                         IF s.indjseg = s.i
                           THEN RAdd(s.output_up_first, s.twolambda)
                           ELSE s.output_low_curr]))

UpCommitEnd_53(c) ==
    LET s == st[c] IN
    /\ s.pc = "L53"
    /\ ~UpCommitCond(s)
    /\ Set(c, NextSample(
           [s EXCEPT !.j_low = s.jseg,
                     !.indstart_low = [s.indstart_low EXCEPT
                                         ![s.jseg] = s.indjseg],
                     !.output_low_first =
                         IF s.indjseg = s.i
                           THEN RSub(s.output_up_first, s.twolambda)
                           ELSE s.output_low_curr]))

(* ------------ lines 63-80: the sample is below the band --------------- *)

\* Mutant: line 64 with indstart_low[++j_low] = width.
SampleBelowAtWidth(c) ==
    LET s == st[c]
        x == ToFloat(s, In(s, s.i))
        o == WrOut(s, s.i, In(s, s.i)) IN
    /\ InLoop(s)
    /\ ~RLe(s.output_low_curr, In(s, s.i))
    /\ Set(c, [s EXCEPT !.j_low = s.j_low + 1,
                        !.pushes = s.pushes + 1,
                        !.indstart_low = [s.indstart_low EXCEPT
                                            ![s.j_low + 1] = s.width],
                        !.output_low_curr = x,
                        !.output_up_curr =
                            MeanStep(s.output_up_curr, x,
                                     s.i - s.indstart_up[s.j_up] + 1),
                        !.output = [o EXCEPT ![s.indjseg] =
                                        ToFloat(s, s.output_up_first)],
                        !.pc = "L67"])

SampleBelow(c) ==
    LET s == st[c]
        x == ToFloat(s, In(s, s.i))
        o == WrOut(s, s.i, In(s, s.i)) IN
    /\ InLoop(s)
    /\ ~RLe(s.output_low_curr, In(s, s.i))
    /\ Set(c, [s EXCEPT !.j_low = s.j_low + 1,
                        !.pushes = s.pushes + 1,
                        !.indstart_low = [s.indstart_low EXCEPT
                                            ![s.j_low + 1] = s.i],
                        !.output_low_curr = x,
                        !.output_up_curr =
                            MeanStep(s.output_up_curr, x,
                                     s.i - s.indstart_up[s.j_up] + 1),
                        !.output = [o EXCEPT ![s.indjseg] =
                                        ToFloat(s, s.output_up_first)],
                        !.pc = "L67"])

UpFold_67(c) ==
    LET s == st[c] IN
    /\ s.pc = "L67"
    /\ UpFoldCond(s)
    /\ Set(c, UpFolded(s))

\* The loop of line 67 ends: line 70, and line 80 when j_up != jseg.
UpFoldEnd_67(c) ==
    LET s == st[c]
        t == UpFoldLeft(s) IN
    /\ s.pc = "L67"
    /\ ~UpFoldCond(s)
    /\ Set(c, IF s.j_up = s.jseg
                THEN At(t, "L71")
                ELSE NextSample([t EXCEPT !.output =
                                   WrOut(s, s.indstart_up[s.j_up],
                                         s.output_up_curr)]))

LowCommit_71(c) ==
    LET s == st[c] IN
    /\ s.pc = "L71"
    /\ LowCommitCond(s)
    /\ Set(c, At(LowCommitted(s), "L75"))

Fill_75(c) ==
    LET s == st[c] IN
    /\ s.pc = "L75"
    /\ ULt(s.indjseg, s.indjseg2)
    /\ Set(c, Filled(s, s.output_low_first))

FillEnd_75(c) ==
    LET s == st[c] IN
    /\ s.pc = "L75"
    /\ ~ULt(s.indjseg, s.indjseg2)
    /\ Set(c, At(LowFirstReloaded(s), "L71"))

\* Lines 78-79.
LowCommitEnd_71(c) ==
    LET s == st[c] IN
    /\ s.pc = "L71"
    /\ ~LowCommitCond(s)
    /\ Set(c, NextSample(
           [s EXCEPT !.j_up = s.jseg,
                     !.indstart_up = [s.indstart_up EXCEPT
                                        ![s.jseg] = s.indjseg],
                     !.output_up_first =
                         IF s.indjseg = s.i
                           THEN RAdd(s.output_low_first, s.twolambda)
                           ELSE s.output_up_curr]))

(* ------------------ lines 84-91: closing, lower case ------------------ *)

\* Mutant: the right boundary is taken with the wrong sign.
LastPlusFlipped(s) == RSub(In(s, s.i), s.lambda)

\* Mutant: the right boundary lies twice lambda below the last sample.
LastMinusDoubled(s) == RSub(In(s, s.i), RMul(R(2), s.lambda))

\* Mutant: the boundary input[i] - lambda of line 92 with the sign of
\* lambda flipped.
LastMinusFlipped(s) == RAdd(In(s, s.i), s.lambda)

\* Mutant: the right boundary of line 84 without lambda.
LastPlusBare(s) == In(s, s.i)

\* input[i]+lambda and input[i]-lambda at the last sample.
LastPlus(s) == RAdd(In(s, s.i), s.lambda)

LastMinus(s) == RSub(In(s, s.i), s.lambda)

AtClose(s) == s.pc = "L84" /\ s.i \in DOMAIN s.input

CloseLow(c) ==
    LET s == st[c] IN
    /\ AtClose(s)
    /\ RLe(LastPlus(s), s.output_low_curr)
    /\ Set(c, At(s, "L85"))

LowSeg_85(c) ==
    LET s == st[c] IN
    /\ s.pc = "L85"
    /\ ULt(s.jseg, s.j_low)
    /\ Set(c, At(LowSegTaken(s), "L87"))

Fill_87(c) ==
    LET s == st[c] IN
    /\ s.pc = "L87"
    /\ ULt(s.indjseg, s.indjseg2)
    /\ Set(c, Filled(s, s.output_low_first))

FillEnd_87(c) ==
    LET s == st[c] IN
    /\ s.pc = "L87"
    /\ ~ULt(s.indjseg, s.indjseg2)
    /\ Set(c, At(LowFirstReloaded(s), "L85"))

LowSegEnd_85(c) ==
    LET s == st[c] IN
    /\ s.pc = "L85"
    /\ ~ULt(s.jseg, s.j_low)
    /\ Set(c, At(s, "L90"))

Fill_90(c) ==
    LET s == st[c] IN
    /\ s.pc = "L90"
    /\ ULt(s.indjseg, s.i)
    /\ Set(c, Filled(s, s.output_low_first))

\* Mutant: line 91 is missing.
FillEnd_90NoStore(c) ==
    LET s == st[c] IN
    /\ s.pc = "L90"
    /\ ~ULt(s.indjseg, s.i)
    /\ Set(c, At(s, "L133"))

\* Line 91.
FillEnd_90(c) ==
    LET s == st[c] IN
    /\ s.pc = "L90"
    /\ ~ULt(s.indjseg, s.i)
    /\ Set(c, [s EXCEPT !.output = WrOut(s, s.indjseg, LastPlus(s)),
                        !.pc = "L133"])

(* ------------------ lines 92-99: closing, upper case ------------------ *)

CloseUp(c) ==
    LET s == st[c] IN
    /\ AtClose(s)
    /\ ~RLe(LastPlus(s), s.output_low_curr)
    /\ RLe(s.output_up_curr, LastMinus(s))
    /\ Set(c, At(s, "L93"))

UpSeg_93(c) ==
    LET s == st[c] IN
    /\ s.pc = "L93"
    /\ ULt(s.jseg, s.j_up)
    /\ Set(c, At(UpSegTaken(s), "L95"))

Fill_95(c) ==
    LET s == st[c] IN
    /\ s.pc = "L95"
    /\ ULt(s.indjseg, s.indjseg2)
    /\ Set(c, Filled(s, s.output_up_first))

FillEnd_95(c) ==
    LET s == st[c] IN
    /\ s.pc = "L95"
    /\ ~ULt(s.indjseg, s.indjseg2)
    /\ Set(c, At(UpFirstReloaded(s), "L93"))

UpSegEnd_93(c) ==
    LET s == st[c] IN
    /\ s.pc = "L93"
    /\ ~ULt(s.jseg, s.j_up)
    /\ Set(c, At(s, "L98"))

Fill_98(c) ==
    LET s == st[c] IN
    /\ s.pc = "L98"
    /\ ULt(s.indjseg, s.i)
    /\ Set(c, Filled(s, s.output_up_first))

\* Mutant: line 99 takes lambda from the other call while that one runs.
FillEnd_98Shared(c) ==
    LET s == st[c]
        o == st[3 - c]
        lam == IF o.pc \in {"idle", "done"} THEN s.lambda ELSE o.lambda IN
    /\ s.pc = "L98"
    /\ ~ULt(s.indjseg, s.i)
    /\ Set(c, [s EXCEPT !.output =
                            WrOut(s, s.indjseg, RSub(In(s, s.i), lam)),
                        !.pc = "L133"])

\* Line 99.
FillEnd_98(c) ==
    LET s == st[c] IN
    /\ s.pc = "L98"
    /\ ~ULt(s.indjseg, s.i)
    /\ Set(c, [s EXCEPT !.output = WrOut(s, s.indjseg, LastMinus(s)),
                        !.pc = "L133"])

(* ---------------- lines 100-132: closing, merge case ------------------ *)

\* Lines 101-102.
CloseMid(c) ==
    LET s == st[c] IN
    /\ AtClose(s)
    /\ ~RLe(LastPlus(s), s.output_low_curr)
    /\ ~RLe(s.output_up_curr, LastMinus(s))
    /\ Set(c, [s EXCEPT !.output_low_curr =
                            MeanStep(s.output_low_curr, LastPlus(s),
                                     s.i - s.indstart_low[s.j_low] + 1),
                        !.output = WrOut(s, s.indjseg, s.output_low_first),
                        !.pc = "L103"])

LowFold_103(c) ==
    LET s == st[c] IN
    /\ s.pc = "L103"
    /\ LowFoldCond(s)
    /\ Set(c, LowFolded(s))

\* The loop of line 103 ends: lines 106-107, and lines 110-111 when the
\* upper envelope still lies below the lower one.
LowFoldEnd_103(c) ==
    LET s == st[c]
        t == LowFoldLeft(s) IN
    /\ s.pc = "L103"
    /\ ~LowFoldCond(s)
    /\ Set(c, IF s.j_low # s.jseg
                THEN At(t, "L124")
                ELSE IF RLe(s.output_low_curr, s.output_up_first)
                THEN At(t, "L108")
                ELSE [t EXCEPT !.output_up_curr =
                                   MeanStep(s.output_up_curr, LastMinus(s),
                                            s.i - s.indstart_up[s.j_up] + 1),
                               !.output =
                                   WrOut(s, s.indjseg, s.output_up_first),
                               !.pc = "L112"])

Fill_108(c) ==
    LET s == st[c] IN
    /\ s.pc = "L108"
    /\ ULe(s.indjseg, s.i)
    /\ Set(c, Filled(s, s.output_low_curr))

FillEnd_108(c) ==
    LET s == st[c] IN
    /\ s.pc = "L108"
    /\ ~ULe(s.indjseg, s.i)
    /\ Set(c, At(s, "L133"))

UpFold_112(c) ==
    LET s == st[c] IN
    /\ s.pc = "L112"
    /\ UpFoldCond(s)
    /\ Set(c, UpFolded(s))

UpFoldEnd_112(c) ==
    LET s == st[c] IN
    /\ s.pc = "L112"
    /\ ~UpFoldCond(s)
    /\ Set(c, At(UpFoldLeft(s), "L115"))

UpSeg_115(c) ==
    LET s == st[c] IN
    /\ s.pc = "L115"
    /\ ULt(s.jseg, s.j_up)
    /\ Set(c, At(UpSegTaken(s), "L117"))

Fill_117(c) ==
    LET s == st[c] IN
    /\ s.pc = "L117"
    /\ ULt(s.indjseg, s.indjseg2)
    /\ Set(c, Filled(s, s.output_up_first))

FillEnd_117(c) ==
    LET s == st[c] IN
    /\ s.pc = "L117"
    /\ ~ULt(s.indjseg, s.indjseg2)
    /\ Set(c, At(UpFirstReloaded(s), "L115"))

\* Line 120.
UpSegEnd_115(c) ==
    LET s == st[c] IN
    /\ s.pc = "L115"
    /\ ~ULt(s.jseg, s.j_up)
    /\ Set(c, [s EXCEPT !.indjseg = s.indstart_up[s.j_up], !.pc = "L121"])

Fill_121(c) ==
    LET s == st[c] IN
    /\ s.pc = "L121"
    /\ ULe(s.indjseg, s.i)
    /\ Set(c, Filled(s, s.output_up_curr))

FillEnd_121(c) ==
    LET s == st[c] IN
    /\ s.pc = "L121"
    /\ ~ULe(s.indjseg, s.i)
    /\ Set(c, At(s, "L133"))

LowSeg_124(c) ==
    LET s == st[c] IN
    /\ s.pc = "L124"
    /\ ULt(s.jseg, s.j_low)
    /\ Set(c, At(LowSegTaken(s), "L126"))

Fill_126(c) ==
    LET s == st[c] IN
    /\ s.pc = "L126"
    /\ ULt(s.indjseg, s.indjseg2)
    /\ Set(c, Filled(s, s.output_low_first))

FillEnd_126(c) ==
    LET s == st[c] IN
    /\ s.pc = "L126"
    /\ ~ULt(s.indjseg, s.indjseg2)
    /\ Set(c, At(LowFirstReloaded(s), "L124"))

\* Line 129.
LowSegEnd_124(c) ==
    LET s == st[c] IN
    /\ s.pc = "L124"
    /\ ~ULt(s.jseg, s.j_low)
    /\ Set(c, [s EXCEPT !.indjseg = s.indstart_low[s.j_low], !.pc = "L130"])

Fill_130(c) ==
    LET s == st[c] IN
    /\ s.pc = "L130"
    /\ ULe(s.indjseg, s.i)
    /\ Set(c, Filled(s, s.output_low_curr))

FillEnd_130(c) ==
    LET s == st[c] IN
    /\ s.pc = "L130"
    /\ ~ULe(s.indjseg, s.i)
    /\ Set(c, At(s, "L133"))

(* --------------------- lines 133-136: the return ---------------------- *)

FreeScratch(c) ==
    LET s == st[c] IN
    /\ s.pc = "L133"
    /\ Set(c, [s EXCEPT !.low_alloc = "freed", !.up_alloc = "freed",
                        !.pc = "L136"])

Return(c) ==
    LET s == st[c] IN
    /\ s.pc = "L136"
    /\ Set(c, At(s, "done"))

(* -------------------------- specification ----------------------------- *)

\* A call slot that holds no call.
Idle == [pc |-> "idle"]

Entries(ar) == {Entry(in, lam, ar) : in \in Inputs, lam \in Lambdas}

\* One call, in exact arithmetic.
Init == st \in {[c \in Calls |-> IF c = 1 THEN e ELSE Idle] : e \in Entries("exact")}

Next ==
    \E c \in Calls :
        \/ NewOutput(c) \/ CopyStep(c) \/ CopyReturn(c)
        \/ AllocScratch(c) \/ Seed(c) \/ SeedOutOfBounds(c) \/ SeedFault(c)
        \/ SingleReturn(c) \/ InitScratch(c) \/ InitScratchOutOfBounds(c)
        \/ LoopExit(c) \/ LoopOutOfBounds(c)
        \/ SampleInBand(c) \/ UpFold_31(c) \/ UpFoldEnd_31(c)
        \/ LowCommit_35(c) \/ Fill_39(c) \/ FillEnd_39(c) \/ LowCommitEnd_35(c)
        \/ SampleAbove(c)
        \/ LowUpdate(c) \/ LowFold_49(c) \/ LowFoldEnd_49(c)
        \/ UpCommit_53(c) \/ Fill_57(c) \/ FillEnd_57(c) \/ UpCommitEnd_53(c)
        \/ SampleBelow(c) \/ UpFold_67(c) \/ UpFoldEnd_67(c)
        \/ LowCommit_71(c) \/ Fill_75(c) \/ FillEnd_75(c) \/ LowCommitEnd_71(c)
        \/ CloseLow(c) \/ LowSeg_85(c) \/ Fill_87(c) \/ FillEnd_87(c)
        \/ LowSegEnd_85(c) \/ Fill_90(c) \/ FillEnd_90(c)
        \/ CloseUp(c) \/ UpSeg_93(c) \/ Fill_95(c) \/ FillEnd_95(c)
        \/ UpSegEnd_93(c) \/ Fill_98(c) \/ FillEnd_98(c)
        \/ CloseMid(c) \/ LowFold_103(c) \/ LowFoldEnd_103(c)
        \/ Fill_108(c) \/ FillEnd_108(c)
        \/ UpFold_112(c) \/ UpFoldEnd_112(c)
        \/ UpSeg_115(c) \/ Fill_117(c) \/ FillEnd_117(c) \/ UpSegEnd_115(c)
        \/ Fill_121(c) \/ FillEnd_121(c)
        \/ LowSeg_124(c) \/ Fill_126(c) \/ FillEnd_126(c) \/ LowSegEnd_124(c)
        \/ Fill_130(c) \/ FillEnd_130(c)
        \/ FreeScratch(c) \/ Return(c)

Spec == Init /\ [][Next]_vars

\* One call, with output[] rounding to the float grid.
InitFloat ==
    st \in {[c \in Calls |-> IF c = 1 THEN e ELSE Idle] : e \in Entries("float")}

SpecFloat == InitFloat /\ [][Next]_vars

\* The caller of a returned call calls again on the same input with a
\* lambda that is at least as large, keeping the output it holds.
CallAgain(c) ==
    LET s == st[c] IN
    /\ s.pc = "done"
    /\ s.lambda[1] >= 0
    /\ \E lam \in Lambdas :
         /\ RLe(s.lambda, lam)
         /\ Set(c, [Entry(s.input, lam, s.arith) EXCEPT
                      !.prev = [lambda |-> s.lambda, output |-> s.output]])

NextSweep == Next \/ \E c \in Calls : CallAgain(c)

\* One caller sweeping lambda upwards over a fixed input.
SpecSweep == Init /\ [][NextSweep]_vars

\* The caller makes the call.
Enter(c) ==
    /\ c = 1
    /\ st[c] = Idle
    /\ \E e \in Entries("exact") : Set(c, e)

InitLive == st = [c \in Calls |-> Idle]

NextLive == Next \/ \E c \in Calls : Enter(c)

\* One call run by one thread, which always takes its next step.
SpecLive == InitLive /\ [][NextLive]_vars /\ WF_vars(Next)

(* ------------------------- the worked examples ------------------------ *)

\* The step input [0,0,0,10,10,10] and the lambdas it is denoised with.
StepInput == [k \in 0..5 |-> IF k < 3 THEN 0 ELSE 10]

StepLambdas == {<<0, 1>>, <<1, 1>>, <<5, 1>>, <<15, 1>>, <<20, 1>>}

\* The ramps [1,2,3,4,5] and [5,4,3,2,1], denoised with lambda = 0.1.
RampInput == [k \in 0..4 |-> k + 1]

RampDownInput == [k \in 0..4 |-> 5 - k]

RampLambda == <<1, 10>>

ExampleEntries ==
    {Entry(StepInput, lam, "exact") : lam \in StepLambdas}
    \cup {Entry(in, RampLambda, "exact") : in \in {RampInput, RampDownInput}}

\* One call, on an input of the bounded family or on one of the examples.
InitExamples ==
    st \in {[c \in Calls |-> IF c = 1 THEN e ELSE Idle] :
               e \in Entries("exact") \cup ExampleEntries}

\* The caller of a returned call on the step input calls again with a
\* lambda that is at least as large, keeping the output it holds.
CallAgainStep(c) ==
    LET s == st[c] IN
    /\ s.pc = "done"
    /\ s.input = StepInput
    /\ \E lam \in StepLambdas :
         /\ RLe(s.lambda, lam)
         /\ Set(c, [Entry(s.input, lam, s.arith) EXCEPT
                      !.prev = [lambda |-> s.lambda, output |-> s.output]])

NextExamples == Next \/ \E c \in Calls : CallAgainStep(c)

SpecExamples == InitExamples /\ [][NextExamples]_vars

\* The call as compiled, with output[] a float buffer, made on the input and
\* lambda of a finished call in which every value kept its double precision;
\* the result of that call is kept for comparison.
CallInFloat(c) ==
    LET s == st[c] IN
    /\ s.pc = "done"
    /\ s.arith = "exact"
    /\ s.prev = NoPrev
    /\ Set(c, [Entry(s.input, s.lambda, "float") EXCEPT
                 !.prev = [lambda |-> s.lambda, output |-> s.output]])

NextPrecision == Next \/ \E c \in Calls : CallInFloat(c)

SpecPrecision == Init /\ [][NextPrecision]_vars

\* The input with every sample negated.
Negated(in) == [k \in DOMAIN in |-> 0 - in[k]]

\* A second call, on the negated input of a finished call with the same
\* lambda; the result of the finished call is kept for comparison.
CallNegated(c) ==
    LET s == st[c] IN
    /\ s.pc = "done"
    /\ s.prev = NoPrev
    /\ Set(c, [Entry(Negated(s.input), s.lambda, s.arith) EXCEPT
                 !.prev = [lambda |-> s.lambda, output |-> s.output]])

NextMirror == Next \/ \E c \in Calls : CallNegated(c)

SpecMirror == Init /\ [][NextMirror]_vars

(* ----------------------- two calls, interleaved ------------------------ *)

\* The buffer holding the samples of a sequence.
Buffer(seq) == [k \in 0..(Len(seq) - 1) |-> seq[k + 1]]

\* Calls that between them take every branch of the code.
PairEntries ==
    {Entry(Buffer(<<>>), <<1, 1>>, "exact"),
     Entry(Buffer(<<0>>), <<0, 1>>, "exact"),
     Entry(Buffer(<<0>>), <<1, 1>>, "exact"),
     Entry(Buffer(<<0, 1, 2>>), <<1, 2>>, "exact"),
     Entry(Buffer(<<1, 2, 1, 0>>), <<1, 2>>, "exact"),
     Entry(Buffer(<<0, 2, 1, 0>>), <<3, 2>>, "exact"),
     Entry(Buffer(<<2, 0, 0, 2, 2>>), <<1, 1>>, "exact"),
     Entry(Buffer(<<1, 0, 2, 0, 2>>), <<1, 2>>, "exact"),
     Entry(Buffer(<<2, 2, 1, 0, 1>>), <<3, 2>>, "exact"),
     Entry(Buffer(<<0, 0, 1, 2, 1>>), <<3, 2>>, "exact")}

\* The first call runs alone ...
InitPair ==
    st \in {[c \in Calls |-> IF c = 1 THEN e ELSE Idle] : e \in PairEntries}

\* ... then the second call runs alone ...
EnterSecond ==
    /\ st[1].pc = "done"
    /\ st[2] = Idle
    /\ \E e \in PairEntries : Set(2, e)

\* ... then both are made again, on the same arguments, each caller keeping
\* the output it holds, and run interleaved in any order.
EnterBoth ==
    /\ \A c \in Calls : st[c].pc = "done" /\ st[c].prev = NoPrev
    /\ st' = [c \in Calls |->
                [Entry(st[c].input, st[c].lambda, st[c].arith) EXCEPT
                   !.prev = [lambda |-> st[c].lambda,
                             output |-> st[c].output]]]

NextPair == Next \/ EnterSecond \/ EnterBoth

SpecPair == InitPair /\ [][NextPair]_vars

(* ------------------------ reading a call's state ---------------------- *)

InFlight(c) == st[c].pc # "idle"

Returned(c) == st[c].pc = "done"

\* The length of the input buffer (width itself is decremented at line 25).
Length(s) == Cardinality(DOMAIN s.input)

\* The input samples as the doubles they convert to.
Samples(s) == [k \in DOMAIN s.input |-> R(s.input[k])]

ZeroLambda(s) == s.lambda = R(0)

NonNegLambda(s) == s.lambda[1] >= 0

PosLambda(s) == s.lambda[1] > 0

NegLambda(s) == s.lambda[1] < 0

\* Every position of the returned buffer holds a value.
Complete(s) ==
    /\ DOMAIN s.output = 0..(Length(s) - 1)
    /\ \A k \in DOMAIN s.output : s.output[k] # Uninit

RECURSIVE VariationFrom(_, _)
VariationFrom(f, k) ==
    IF (k + 1) \notin DOMAIN f
      THEN R(0)
      ELSE RAdd(RAbs(RSub(f[k + 1], f[k])), VariationFrom(f, k + 1))

\* sum_i |f[i+1] - f[i]|
Variation(f) == VariationFrom(f, 0)

\* The indices i with f[i+1] # f[i].
Breaks(f) == {k \in DOMAIN f : (k + 1) \in DOMAIN f /\ f[k + 1] # f[k]}

IsConstant(f) == \A j, k \in DOMAIN f : f[j] = f[k]

RECURSIVE SquaresFrom(_, _, _)
SquaresFrom(x, y, k) ==
    IF k \notin DOMAIN x
      THEN R(0)
      ELSE RAdd(RMul(RSub(x[k], y[k]), RSub(x[k], y[k])),
                SquaresFrom(x, y, k + 1))

\* sum_i (x[i] - y[i])^2 + w * sum_i |x[i+1] - x[i]|
Objective(x, y, w) == RAdd(SquaresFrom(x, y, 0), RMul(w, Variation(x)))

RECURSIVE ExcessFrom(_, _, _)
ExcessFrom(x, y, k) ==
    IF k \notin DOMAIN x
      THEN R(0)
      ELSE RAdd(RSub(x[k], y[k]), ExcessFrom(x, y, k + 1))

\* The one-sided derivative, at t = 0 from above, of
\*   t |-> Objective(x + t * sgn * e, y, w)
\* where e is 1 on the indices k.. and 0 before them (sgn is 1 or -1).
\* The objective is convex and these 2n directions span every cone on
\* which it is smooth, so x minimises it exactly when none of them
\* descends.
Slope(x, y, w, k, sgn) ==
    LET fit == RMul(R(2 * sgn), ExcessFrom(x, y, k))
        jump == IF k = 0 THEN R(0)
                ELSE IF RLt(x[k - 1], x[k]) THEN R(sgn)
                ELSE IF RLt(x[k], x[k - 1]) THEN R(0 - sgn)
                ELSE R(1)
    IN RAdd(fit, RMul(w, jump))

\* The sequences the output is compared with: the input, the point halfway
\* between input and output, the output with one sample put back, and the
\* flat sequences.
Candidates(s) ==
    LET y == Samples(s)
        x == s.output IN
    {y, [k \in DOMAIN x |-> RDiv(RAdd(x[k], y[k]), R(2))]}
    \cup {[x EXCEPT ![k] = y[k]] : k \in DOMAIN x}
    \cup {[k \in DOMAIN x |-> R(v)] : v \in Values}

(* ------------------------------- claims ------------------------------- *)

\* C1 as stated: for length n >= 2 and lambda >= 0 the output minimises
\*   sum_i (x_i - input_i)^2 + lambda * sum_i |x_{i+1} - x_i|,
\* so no candidate has a smaller value of it.
C1_MinimizesSpecObjective ==
    \A c \in Calls :
        (Returned(c) /\ Length(st[c]) >= 2 /\ NonNegLambda(st[c])) =>
            \A x \in Candidates(st[c]) :
                RLe(Objective(st[c].output, Samples(st[c]), st[c].lambda),
                    Objective(x, Samples(st[c]), st[c].lambda))

\* C1 as amended: for length n >= 2 and lambda >= 0 the output is the
\* unique minimiser of
\*   sum_i (x_i - input_i)^2 + 2 * lambda * sum_i |x_{i+1} - x_i|
\* (one half of the squares plus lambda times the variation): every other
\* candidate has a larger value, and no direction descends from the output.
C1_MinimizesHalfObjective ==
    \A c \in Calls :
        (Returned(c) /\ Length(st[c]) >= 2 /\ NonNegLambda(st[c])) =>
            LET x == st[c].output
                y == Samples(st[c])
                w == RMul(R(2), st[c].lambda) IN
            /\ Complete(st[c])
            /\ \A z \in Candidates(st[c]) \ {x} :
                   RLt(Objective(x, y, w), Objective(z, y, w))
            /\ \A k \in DOMAIN x : \A sgn \in {1, 0 - 1} :
                   RLe(R(0), Slope(x, y, w, k, sgn))

C1_Witness ==
    \E c \in Calls :
        /\ Returned(c) /\ Length(st[c]) >= 4 /\ PosLambda(st[c])
        /\ Cardinality(Breaks(st[c].output)) >= 2
        /\ \E k \in DOMAIN st[c].output :
               st[c].output[k] \notin {R(v) : v \in Values}
        /\ \A z \in Candidates(st[c]) \ {st[c].output} :
               RLt(Objective(st[c].output, Samples(st[c]),
                             RMul(R(2), st[c].lambda)),
                   Objective(z, Samples(st[c]), RMul(R(2), st[c].lambda)))


\* C2: with lambda == 0 the call creates no segment-tracking state at any
\* point (no scratch array, no seed read from input[0], no index set) and
\* returns an element-wise copy of the input, for every length from 0 up.
C2_ZeroLambdaCopies ==
    \A c \in Calls :
        (InFlight(c) /\ ZeroLambda(st[c])) =>
            /\ st[c].low_alloc = "none" /\ st[c].up_alloc = "none"
            /\ st[c].output_low_first = Uninit
            /\ st[c].output_up_first = Uninit
            /\ st[c].j_low = Unset /\ st[c].j_up = Unset
            /\ st[c].pc \in {"L6", "L8", "done"}
            /\ Returned(c) => st[c].output = Samples(st[c])

C2_Witness ==
    \E c \in Calls :
        /\ Returned(c) /\ ZeroLambda(st[c])
        /\ Length(st[c]) >= 2 /\ ~IsConstant(st[c].input)
        /\ st[c].output = Samples(st[c])

\* C3: an empty input with lambda >= 0 is a defined case: nothing outside a
\* buffer is read or written, width does not wrap, the call neither faults
\* nor runs on undefined, and it returns an empty output.
C3_EmptyInputDefined ==
    \A c \in Calls :
        (InFlight(c) /\ Length(st[c]) = 0 /\ NonNegLambda(st[c])) =>
            /\ st[c].ub = {}
            /\ st[c].width = 0
            /\ st[c].pc \notin {"fault", "undefined"}
            /\ Returned(c) => st[c].output = <<>>

\* C4: a call with lambda < 0 is rejected at entry: it never returns an
\* output sequence.
C4_NegativeLambdaRejected ==
    \A c \in Calls : (InFlight(c) /\ NegLambda(st[c])) => ~Returned(c)

\* C5: for length n >= 1 and lambda >= 0 the returned buffer has exactly the
\* indices 0..n-1 and each of them has been assigned.
C5_OutputComplete ==
    \A c \in Calls :
        (Returned(c) /\ Length(st[c]) >= 1 /\ NonNegLambda(st[c])) =>
            Complete(st[c])

C5_Witness ==
    \E c \in Calls :
        /\ Returned(c) /\ PosLambda(st[c]) /\ Length(st[c]) >= 3
        /\ st[c].jseg > 0
        /\ Complete(st[c])

\* C6: a one-element input [v] with lambda >= 0 returns [v].
C6_SingleElement ==
    \A c \in Calls :
        (Returned(c) /\ Length(st[c]) = 1 /\ NonNegLambda(st[c])) =>
            st[c].output = Samples(st[c])

C6_Witness ==
    \E c \in Calls :
        /\ Returned(c) /\ Length(st[c]) = 1 /\ PosLambda(st[c])
        /\ st[c].output = Samples(st[c])

\* C7: on every return path both scratch arrays allocated during the call
\* have been released when the call returns.
C7_ScratchReleased ==
    \A c \in Calls :
        (Returned(c) /\ NonNegLambda(st[c])) =>
            (st[c].low_alloc # "live" /\ st[c].up_alloc # "live")

\* C8: for every input and lambda >= 0 the total variation of the output is
\* at most that of the input.
C8_VariationNonIncrease ==
    \A c \in Calls :
        (Returned(c) /\ NonNegLambda(st[c])) =>
            RLe(Variation(st[c].output), Variation(Samples(st[c])))

C8_Witness ==
    \E c \in Calls :
        /\ Returned(c) /\ PosLambda(st[c])
        /\ RLt(R(0), Variation(st[c].output))
        /\ RLt(Variation(st[c].output), Variation(Samples(st[c])))

\* C9: for a fixed input and 0 <= lambda1 <= lambda2 the breakpoints of the
\* output at lambda2 are among the breakpoints of the output at lambda1.
C9_BreaksOnlyDisappear ==
    \A c \in Calls :
        (Returned(c) /\ st[c].prev # NoPrev) =>
            /\ RLe(R(0), st[c].prev.lambda)
            /\ RLe(st[c].prev.lambda, st[c].lambda)
            /\ Breaks(st[c].output) \subseteq Breaks(st[c].prev.output)

C9_Witness ==
    \E c \in Calls :
        /\ Returned(c) /\ st[c].prev # NoPrev
        /\ RLt(R(0), st[c].prev.lambda)
        /\ RLt(st[c].prev.lambda, st[c].lambda)
        /\ Breaks(st[c].output) # {}
        /\ Breaks(st[c].output) # Breaks(st[c].prev.output)
        /\ Breaks(st[c].output) \subseteq Breaks(st[c].prev.output)

\* C10: a constant input of length n >= 1 with lambda >= 0 is returned
\* unchanged.
C10_ConstantInput ==
    \A c \in Calls :
        (Returned(c) /\ Length(st[c]) >= 1 /\ NonNegLambda(st[c])
           /\ IsConstant(st[c].input)) =>
            st[c].output = Samples(st[c])

C10_Witness ==
    \E c \in Calls :
        /\ Returned(c) /\ Length(st[c]) >= 3 /\ PosLambda(st[c])
        /\ IsConstant(st[c].input)
        /\ st[c].output = Samples(st[c])

RECURSIVE SumFrom(_, _)
SumFrom(f, k) == IF k \notin DOMAIN f THEN R(0) ELSE RAdd(f[k], SumFrom(f, k + 1))

\* The mean of a non-empty sequence.
Mean(f) == RDiv(SumFrom(f, 0), R(Cardinality(DOMAIN f)))

\* The variance of a non-empty sequence: the mean squared deviation.
Variance(f) ==
    LET m == Mean(f) IN
    Mean([k \in DOMAIN f |-> RMul(RSub(f[k], m), RSub(f[k], m))])

\* |f[k] - v|
Distance(f, k, v) == RAbs(RSub(f[k], v))

\* C11: on the step input [0,0,0,10,10,10], for 0 <= lambda1 <= lambda2 the
\* variance of the output at lambda2 is at most that at lambda1, and every
\* element of the output at lambda = 5 is closer to the mean of the input
\* than the same element of the output at lambda = 1.
C11_StepVarianceDecreases ==
    \A c \in Calls :
        (Returned(c) /\ st[c].input = StepInput /\ st[c].prev # NoPrev) =>
            /\ RLe(R(0), st[c].prev.lambda)
            /\ RLe(st[c].prev.lambda, st[c].lambda)
            /\ RLe(Variance(st[c].output), Variance(st[c].prev.output))
            /\ (st[c].prev.lambda = R(1) /\ st[c].lambda = R(5)) =>
                   \A k \in DOMAIN st[c].output :
                       RLt(Distance(st[c].output, k, Mean(Samples(st[c]))),
                           Distance(st[c].prev.output, k,
                                    Mean(Samples(st[c]))))

C11_Witness ==
    \E c \in Calls :
        /\ Returned(c) /\ st[c].input = StepInput
        /\ st[c].prev.lambda = R(1) /\ st[c].lambda = R(5)
        /\ RLt(R(0), Variance(st[c].output))
        /\ RLt(Variance(st[c].output), Variance(st[c].prev.output))

\* f rises (sgn = 1) or falls (sgn = -1) at every step.
Monotone(f, sgn) ==
    \A k \in DOMAIN f :
        (k + 1) \in DOMAIN f => RLt(R(0), RMul(R(sgn), RSub(f[k + 1], f[k])))

\* Twice lambda is below every step of the input.
SmallLambda(s) ==
    \A k \in DOMAIN s.input :
        (k + 1) \in DOMAIN s.input =>
            RLt(RMul(R(2), s.lambda),
                RAbs(RSub(In(s, k + 1), In(s, k))))

\* C12: for a strictly monotone input of length >= 2 and 0 <= lambda with
\* twice lambda below every step (the ramp [1,2,3,4,5] with lambda = 0.1),
\* every output element is within lambda of its input element, the interior
\* elements are unchanged and the output is strictly monotone the same way.
C12_MonotoneInputKept ==
    \A c \in Calls : \A sgn \in {1, 0 - 1} :
        (Returned(c) /\ Length(st[c]) >= 2 /\ NonNegLambda(st[c])
           /\ Monotone(Samples(st[c]), sgn) /\ SmallLambda(st[c])) =>
            /\ Complete(st[c])
            /\ \A k \in DOMAIN st[c].output :
                   /\ RLe(Distance(st[c].output, k, In(st[c], k)), st[c].lambda)
                   /\ (0 < k /\ k < Length(st[c]) - 1) =>
                          st[c].output[k] = In(st[c], k)
            /\ Monotone(st[c].output, sgn)

C12_Witness ==
    \E c \in Calls :
        /\ Returned(c) /\ st[c].input = RampInput /\ st[c].lambda = RampLambda
        /\ st[c].output[0] = <<11, 10>>
        /\ st[c].output[2] = R(3)
        /\ st[c].output[4] = <<49, 10>>

\* C13: no step of a call changes its input buffer, for every lambda and
\* every length, and the buffer a call returns is the one it allocated at
\* line 6, still allocated.
C13_InputNotMutated ==
    [][\A c \in Calls :
          (InFlight(c) /\ st'[c].pc # "idle") =>
              /\ st'[c].input = st[c].input
              /\ st'[c].pc = "done" => st'[c].out_alloc = "live"]_vars

C13_Witness ==
    \E c \in Calls :
        /\ Returned(c) /\ PosLambda(st[c]) /\ Length(st[c]) >= 3
        /\ st[c].out_alloc = "live"
        /\ \A k \in DOMAIN st[c].output : st[c].output[k] # In(st[c], k)

\* The lines of the fold-back loops of the upper and of the lower envelope,
\* of the fill loops bounded by indjseg2, by i and by i + 1, and the tests of
\* the segment loops over the lower and over the upper list.
UpFoldLines == {"L31", "L67", "L112"}

LowFoldLines == {"L49", "L103"}

FillLines == {"L39", "L57", "L75", "L87", "L95", "L117", "L126"}

FillToLastLines == {"L90", "L98"}

FillAllLines == {"L108", "L121", "L130"}

LowSegLines == {<<"L35", "L39">>, <<"L71", "L75">>, <<"L85", "L87">>,
                <<"L124", "L126">>}

UpSegLines == {<<"L53", "L57">>, <<"L93", "L95">>, <<"L115", "L117">>}

\* What one step from s to t does to the loop it belongs to: a turn of the
\* main loop advances i by one and keeps it below the length, any other step
\* leaves i alone; a turn of the copy loop takes its index one up; a turn of a fold-back loop takes j_up or j_low one down,
\* not below jseg; a turn of a segment loop takes jseg one up, not above
\* j_low or j_up; a turn of a fill loop takes indjseg one up, not above its
\* bound.
LoopAdvances(s, t) ==
    /\ (s.pc # "L22" /\ t.pc = "L26") =>
           (t.i = s.i + 1 /\ t.i <= Length(s) - 1)
    /\ (s.pc # "L14" /\ (s.pc = "L22" \/ t.pc # "L26")) => t.i = s.i
    /\ (s.pc = "L8" /\ t.pc = "L8") =>
           (t.ic = s.ic + 1 /\ t.ic <= Length(s))
    /\ (s.pc \in UpFoldLines /\ t.pc = s.pc) =>
           (t.j_up = s.j_up - 1 /\ t.j_up >= t.jseg)
    /\ (s.pc \in LowFoldLines /\ t.pc = s.pc) =>
           (t.j_low = s.j_low - 1 /\ t.j_low >= t.jseg)
    /\ (<<s.pc, t.pc>> \in LowSegLines) =>
           (t.jseg = s.jseg + 1 /\ t.jseg <= t.j_low)
    /\ (<<s.pc, t.pc>> \in UpSegLines) =>
           (t.jseg = s.jseg + 1 /\ t.jseg <= t.j_up)
    /\ (s.pc \in FillLines /\ t.pc = s.pc) =>
           (t.indjseg = s.indjseg + 1 /\ t.indjseg <= t.indjseg2)
    /\ (s.pc \in FillToLastLines /\ t.pc = s.pc) =>
           (t.indjseg = s.indjseg + 1 /\ t.indjseg <= t.i)
    /\ (s.pc \in FillAllLines /\ t.pc = s.pc) =>
           (t.indjseg = s.indjseg + 1 /\ t.indjseg <= t.i + 1)

\* C14: a call on an input of length n >= 1 with lambda >= 0 returns, and
\* on the way every turn of the main loop advances i by one and every turn
\* of an inner loop moves j_low, j_up, jseg or indjseg one step towards its
\* bound.
C14_Terminates ==
    /\ \A c \in Calls :
           (InFlight(c) /\ Length(st[c]) >= 1 /\ NonNegLambda(st[c]))
               ~> Returned(c)
    /\ [][\A c \in Calls :
             (InFlight(c) /\ Length(st[c]) >= 1 /\ NonNegLambda(st[c])) =>
                 LoopAdvances(st[c], st'[c])]_vars

C14_Witness ==
    \E c \in Calls :
        /\ Returned(c) /\ PosLambda(st[c]) /\ Length(st[c]) = MaxLen
        /\ st[c].i = Length(st[c]) - 1
        /\ st[c].jseg >= 2
        /\ st[c].indjseg = Length(st[c])

\* C15: a call interleaved step by step, in any order, with a call on another
\* buffer returns exactly the output it returned when it ran alone on the
\* same arguments.
C15_Reentrant ==
    \A c \in Calls :
        (Returned(c) /\ st[c].prev # NoPrev) =>
            /\ st[c].prev.lambda = st[c].lambda
            /\ st[c].output = st[c].prev.output

C15_Witness ==
    /\ \A c \in Calls :
           /\ Returned(c) /\ st[c].prev # NoPrev
           /\ PosLambda(st[c]) /\ Length(st[c]) >= 4
           /\ st[c].output = st[c].prev.output
           /\ Breaks(st[c].output) # {}
    /\ st[1].input # st[2].input
    /\ st[1].lambda # st[2].lambda

\* The lines inside the body of the main loop.
BodyLines == {"L31", "L35", "L39", "L47", "L49", "L53", "L57",
              "L67", "L71", "L75"}

\* The number of samples the main loop has taken up so far.
Processed(s) ==
    IF s.pc \in BodyLines THEN s.i
    ELSE IF s.i = Unset THEN 0
    ELSE s.i - 1

\* C16: at every point of a call on an input of length n the fold-back
\* turns so far (j_low--, j_up--) are at most the pushes so far (++j_low,
\* ++j_up), even together with the commits so far (++jseg); the pushes are
\* at most one per sample taken up by the main loop; the commits so far are
\* the value of jseg, which no step decreases; and fold-back and commit
\* turns together stay within 2 * n.
C16_UnwoundAtMostOnce ==
    /\ [](\A c \in Calls :
            (InFlight(c) /\ st[c].ub = {}) =>
                /\ st[c].folds <= st[c].pushes
                /\ st[c].folds + st[c].commits <= st[c].pushes
                /\ st[c].pushes <= Processed(st[c])
                /\ st[c].jseg \in {Unset, st[c].commits}
                /\ st[c].folds + st[c].commits <= 2 * Length(st[c]))
    /\ [][\A c \in Calls :
             (InFlight(c) /\ st[c].jseg # Unset /\ st'[c].pc # "L6") =>
                 st'[c].jseg >= st[c].jseg]_vars

C16_Witness ==
    \E c \in Calls :
        /\ Returned(c) /\ PosLambda(st[c])
        /\ st[c].folds >= 2
        /\ st[c].commits >= 1
        /\ st[c].folds + st[c].commits = st[c].pushes
        /\ st[c].pushes = Length(st[c]) - 2

\* The subscript k and, where k lies inside the index array a, the sample
\* index a[k] that is used as a subscript in turn.
Through(a, k) == IF k \in DOMAIN a THEN {k, a[k]} ELSE {k}

\* The subscripts, into input[], output[], indstart_low[] and indstart_up[]
\* alike, that the statement about to run in state s evaluates.
Subscripts(s) ==
    LET up == ULt(s.jseg, s.j_up)
        low == ULt(s.jseg, s.j_low)
        upFold == IF up THEN Through(s.indstart_up, s.j_up - 1) \cup {s.j_up}
                  ELSE {}
        lowFold == IF low
                     THEN Through(s.indstart_low, s.j_low - 1) \cup {s.j_low}
                     ELSE {}
        upLeft == IF s.j_up = s.jseg THEN {}
                  ELSE Through(s.indstart_up, s.j_up)
        lowLeft == IF s.j_low = s.jseg THEN {}
                   ELSE Through(s.indstart_low, s.j_low) IN
    CASE s.pc = "L8" -> IF ULt(s.ic, s.width) THEN {s.ic} ELSE {}
      [] s.pc \in {"L17", "L22"} -> {0}
      [] s.pc = "L26" ->
           IF ~ULt(s.i, s.width) THEN {}
           ELSE {s.i, s.j_up, s.indjseg}
                \cup (IF s.i \in DOMAIN s.input
                         /\ ~RLe(s.output_low_curr, In(s, s.i))
                        THEN {s.j_low + 1} ELSE {})
                \cup (IF s.i \in DOMAIN s.input
                         /\ ~RLe(In(s, s.i), s.output_up_curr)
                        THEN {s.j_up + 1} ELSE {})
      [] s.pc \in {"L47", "L84"} -> {s.i, s.j_low, s.j_up, s.indjseg}
      [] s.pc \in {"L31", "L67"} -> upFold \cup upLeft
      [] s.pc = "L112" -> upFold
      [] s.pc = "L49" -> lowFold \cup lowLeft
      [] s.pc = "L103" -> lowFold \cup {s.i, s.j_up, s.indjseg}
      [] s.pc \in {"L35", "L71"} ->
           IF LowCommitCond(s) THEN {s.jseg + 1, s.i} ELSE {s.jseg}
      [] s.pc = "L53" ->
           IF UpCommitCond(s) THEN {s.jseg + 1, s.i} ELSE {s.jseg}
      [] s.pc \in {"L85", "L124"} ->
           IF low THEN {s.jseg + 1}
           ELSE IF s.pc = "L124" THEN {s.j_low} ELSE {}
      [] s.pc \in {"L93", "L115"} ->
           IF up THEN {s.jseg + 1}
           ELSE IF s.pc = "L115" THEN {s.j_up} ELSE {}
      [] s.pc \in FillLines -> {s.indjseg}
      [] s.pc \in FillToLastLines -> {s.indjseg, s.i}
      [] s.pc \in FillAllLines ->
           IF ULe(s.indjseg, s.i) THEN {s.indjseg} ELSE {}
      [] OTHER -> {}

\* The breakpoints on the list a between jseg and j are sample indices that
\* the main loop has reached.
StoredUpTo(s, a, j) ==
    \A k \in DOMAIN a :
        (s.jseg <= k /\ k <= j) => (0 <= a[k] /\ a[k] <= s.i)

\* A call on at least two samples with lambda > 0, past line 16.
Tracking(c) ==
    /\ InFlight(c) /\ Length(st[c]) >= 2 /\ PosLambda(st[c])
    /\ st[c].jseg # Unset

\* What C17 says of every state but for the order of jseg, j_low and j_up:
\* the three list positions lie in [0, n), i in [1, n-1], the breakpoints
\* stored between jseg and j_low / j_up are at most i, and every subscript
\* about to be used lies in [0, n).
WithinBuffers(s) ==
    /\ {s.jseg, s.j_low, s.j_up} \subseteq 0..(Length(s) - 1)
    /\ s.i \in 1..(Length(s) - 1)
    /\ s.pc \notin {"L17", "L22"} =>
           /\ StoredUpTo(s, s.indstart_low, s.j_low)
           /\ StoredUpTo(s, s.indstart_up, s.j_up)
    /\ Subscripts(s) \subseteq 0..(Length(s) - 1)

\* C17 as stated: for n >= 2 and lambda > 0, in every state
\* jseg <= j_low < n and jseg <= j_up < n, the stored breakpoints are at
\* most i <= n-1, and every subscript lies in [0, n).
C17_IndicesOrderedEverywhere ==
    \A c \in Calls :
        Tracking(c) =>
            /\ st[c].jseg <= st[c].j_low
            /\ st[c].jseg <= st[c].j_up
            /\ WithinBuffers(st[c])

\* C17 as amended: for n >= 2 and lambda > 0, in every state j_low, j_up and
\* jseg lie in [0, n), the stored breakpoints are at most i <= n-1 and every
\* subscript lies in [0, n); jseg <= j_low and jseg <= j_up hold at the
\* loop test of line 26, at the start of the closing step and through the
\* fold-back loops, not inside the commit and segment loops.
C17_IndicesInBounds ==
    \A c \in Calls :
        Tracking(c) =>
            /\ WithinBuffers(st[c])
            /\ st[c].pc \in {"L26", "L84", "L47"} \cup UpFoldLines
                              \cup LowFoldLines =>
                   (st[c].jseg <= st[c].j_low /\ st[c].jseg <= st[c].j_up)

C17_Witness ==
    \E c \in Calls :
        /\ Tracking(c)
        /\ st[c].pc \in {"L39", "L57", "L75"}
        /\ (st[c].j_low < st[c].jseg \/ st[c].j_up < st[c].jseg)
        /\ st[c].indjseg = st[c].i - 1
        /\ st[c].i = Length(st[c]) - 2
        /\ WithinBuffers(st[c])

\* The value of pending segment k of the lower envelope: output_low_first
\* for k = jseg, output_low_curr for k = j_low, and the value parked at
\* output[indstart_low[k]] in between.
LowValue(s, k) ==
    IF k = s.jseg THEN s.output_low_first
    ELSE IF k = s.j_low THEN s.output_low_curr
    ELSE s.output[s.indstart_low[k]]

\* The value of pending segment k of the upper envelope.
UpValue(s, k) ==
    IF k = s.jseg THEN s.output_up_first
    ELSE IF k = s.j_up THEN s.output_up_curr
    ELSE s.output[s.indstart_up[k]]

\* The loop test of line 26 or the start of the closing step, lambda > 0.
AtIterationStart(c) ==
    /\ InFlight(c) /\ PosLambda(st[c])
    /\ st[c].pc \in {"L26", "L84"}

\* C18: for lambda > 0, at the start of every main-loop iteration and of the
\* closing step the pending lower-envelope values are strictly decreasing in
\* k, the pending upper-envelope values strictly increasing in k, and the
\* start indices of both lists strictly increasing.
C18_EnvelopesMonotone ==
    \A c \in Calls :
        AtIterationStart(c) =>
            LET s == st[c] IN
            /\ \A k \in s.jseg..(s.j_low - 1) :
                   /\ RLt(LowValue(s, k + 1), LowValue(s, k))
                   /\ s.indstart_low[k] < s.indstart_low[k + 1]
            /\ \A k \in s.jseg..(s.j_up - 1) :
                   /\ RLt(UpValue(s, k), UpValue(s, k + 1))
                   /\ s.indstart_up[k] < s.indstart_up[k + 1]

C18_Witness ==
    \E c \in Calls :
        LET s == st[c] IN
        /\ AtIterationStart(c)
        /\ s.j_low >= s.jseg + 1
        /\ s.j_up >= s.jseg + 1
        /\ RLt(LowValue(s, s.jseg + 1), LowValue(s, s.jseg))
        /\ RLt(UpValue(s, s.jseg), UpValue(s, s.jseg + 1))
        /\ s.indstart_low[s.jseg] < s.indstart_low[s.jseg + 1]
        /\ s.indstart_up[s.jseg] < s.indstart_up[s.jseg + 1]

\* The result C19 states for the two samples a, b and lambda = lam.
TwoSampleResult(a, b, lam) ==
    LET two == RMul(R(2), lam) IN
    IF RLe(two, R(b - a))
      THEN [k \in 0..1 |-> IF k = 0 THEN RAdd(R(a), lam) ELSE RSub(R(b), lam)]
    ELSE IF RLe(two, R(a - b))
      THEN [k \in 0..1 |-> IF k = 0 THEN RSub(R(a), lam) ELSE RAdd(R(b), lam)]
    ELSE [k \in 0..1 |-> RDiv(R(a + b), R(2))]

\* A call on exactly two samples with lambda > 0.
TwoSamples(c) ==
    InFlight(c) /\ Length(st[c]) = 2 /\ PosLambda(st[c])

\* C19: on a two-element input [a, b] with lambda > 0 the main loop body
\* never runs (no line of the body is reached, no sample is pushed) and the
\* call returns [a + lambda, b - lambda] if b - a >= 2*lambda,
\* [a - lambda, b + lambda] if a - b >= 2*lambda, and (a + b)/2 twice
\* otherwise.
C19_TwoSamplesClosedForm ==
    \A c \in Calls :
        TwoSamples(c) =>
            /\ st[c].pc \notin BodyLines
            /\ st[c].pushes = 0 /\ st[c].folds = 0
            /\ Returned(c) =>
                   st[c].output = TwoSampleResult(st[c].input[0],
                                                  st[c].input[1],
                                                  st[c].lambda)

C19_Witness ==
    \E c \in Calls :
        /\ TwoSamples(c) /\ Returned(c)
        /\ st[c].input[1] - st[c].input[0] = 2
        /\ st[c].lambda = <<1, 2>>
        /\ st[c].output = [k \in 0..1 |-> IF k = 0 THEN <<1, 2>> ELSE <<3, 2>>]
        /\ st[c].output[0] = RAdd(In(st[c], 0), st[c].lambda)
        /\ st[c].output[1] = RSub(In(st[c], 1), st[c].lambda)

\* A returned call with output[] in single precision, on n >= 1 samples
\* with lambda > 0, whose double-precision result is at hand.
FloatReturned(c) ==
    /\ Returned(c)
    /\ st[c].arith = "float"
    /\ st[c].prev # NoPrev
    /\ PosLambda(st[c])
    /\ Length(st[c]) >= 1

\* C20: every envelope and segment value is carried in double precision up
\* to its use, so the only effect of the float buffer is the rounding of the
\* final stores: each returned sample is the float nearest to the sample
\* that the same call computes when no value is narrowed.
C20_DoubleThroughout ==
    \A c \in Calls :
        FloatReturned(c) =>
            \A k \in DOMAIN st[c].output :
                st[c].output[k] = RoundFloat(st[c].prev.output[k])

\* The running sum of output - input over the samples 0..i.
RECURSIVE Drift(_, _, _)
Drift(x, y, i) ==
    IF i < 0 THEN R(0) ELSE RAdd(Drift(x, y, i - 1), RSub(x[i], y[i]))

\* A returned call on at least two samples with lambda > 0.
ReturnedSmoothed(c) ==
    Returned(c) /\ Length(st[c]) >= 2 /\ PosLambda(st[c])

\* C21: for n >= 2 and lambda > 0 the running sum of output - input stays
\* within [-lambda, lambda] at every i in 0..n-2, and equals +lambda where
\* the output steps up after i and -lambda where it steps down after i.
C21_InsideTube ==
    \A c \in Calls :
        ReturnedSmoothed(c) =>
            LET s == st[c]
                y == Samples(s) IN
            \A i \in 0..(Length(s) - 2) :
                LET d == Drift(s.output, y, i) IN
                /\ RLe(RSub(R(0), s.lambda), d)
                /\ RLe(d, s.lambda)
                /\ RLt(s.output[i], s.output[i + 1]) => d = s.lambda
                /\ RLt(s.output[i + 1], s.output[i]) =>
                       d = RSub(R(0), s.lambda)

C21_Witness ==
    \E c \in Calls :
        LET s == st[c]
            y == Samples(s) IN
        /\ ReturnedSmoothed(c)
        /\ \E i, j, k \in 0..(Length(s) - 2) :
               /\ RLt(s.output[i], s.output[i + 1])
               /\ Drift(s.output, y, i) = s.lambda
               /\ RLt(s.output[j + 1], s.output[j])
               /\ Drift(s.output, y, j) = RSub(R(0), s.lambda)
               /\ s.output[k] = s.output[k + 1]
               /\ RLt(Drift(s.output, y, k), s.lambda)
               /\ RLt(RSub(R(0), s.lambda), Drift(s.output, y, k))

\* A returned call on at least one sample with lambda >= 0.
ReturnedAny(c) ==
    Returned(c) /\ Length(st[c]) >= 1 /\ NonNegLambda(st[c])

\* C22: for n >= 1 and lambda >= 0 the output has the same sum as the
\* input.
C22_SumPreserved ==
    \A c \in Calls :
        ReturnedAny(c) =>
            SumFrom(st[c].output, 0) = SumFrom(Samples(st[c]), 0)

C22_Witness ==
    \E c \in Calls :
        /\ ReturnedAny(c)
        /\ PosLambda(st[c])
        /\ st[c].commits >= 2
        /\ st[c].output # Samples(st[c])
        /\ ~IsConstant(st[c].output)
        /\ SumFrom(st[c].output, 0) = SumFrom(Samples(st[c]), 0)

\* C23: for n >= 1 and lambda >= 0 every output element lies between the
\* smallest and the largest input sample.
C23_WithinInputRange ==
    \A c \in Calls :
        ReturnedAny(c) =>
            \A k \in DOMAIN st[c].output :
                /\ \E j \in DOMAIN st[c].input :
                       RLe(R(st[c].input[j]), st[c].output[k])
                /\ \E j \in DOMAIN st[c].input :
                       RLe(st[c].output[k], R(st[c].input[j]))

C23_Witness ==
    \E c \in Calls :
        /\ ReturnedAny(c)
        /\ PosLambda(st[c])
        /\ ~IsConstant(st[c].output)
        /\ \A k \in DOMAIN st[c].output :
               /\ \E j \in DOMAIN st[c].input :
                      RLt(R(st[c].input[j]), st[c].output[k])
               /\ \E j \in DOMAIN st[c].input :
                      RLt(st[c].output[k], R(st[c].input[j]))

\* A returned call on the negated input of an earlier call (n >= 1,
\* lambda >= 0) whose result is at hand.
MirrorReturned(c) ==
    ReturnedAny(c) /\ st[c].prev # NoPrev

\* C24: for n >= 1 and lambda >= 0, denoising the negated input gives the
\* element-wise negation of the denoised input.
C24_NegationSymmetry ==
    \A c \in Calls :
        MirrorReturned(c) =>
            /\ DOMAIN st[c].output = DOMAIN st[c].prev.output
            /\ \A k \in DOMAIN st[c].output :
                   st[c].output[k] = RSub(R(0), st[c].prev.output[k])

C24_Witness ==
    \E c \in Calls :
        /\ MirrorReturned(c)
        /\ PosLambda(st[c])
        /\ st[c].folds >= 1 /\ st[c].commits >= 2
        /\ ~IsConstant(st[c].output)
        /\ st[c].output # Samples(st[c])
        /\ \A k \in DOMAIN st[c].output :
               st[c].output[k] = RSub(R(0), st[c].prev.output[k])

\* The indices pushed onto a breakpoint list a and still pending: the
\* entries above jseg up to j.
Pending(s, a, j) == {a[k] : k \in (s.jseg + 1)..j}

\* C25: for lambda > 0 and n >= 2, at the start of every main-loop iteration
\* and of the closing step output_low_curr <= output_up_curr and
\* output_low_first <= output_up_first; the sample at hand is not both
\* below the lower and above the upper envelope, and no index is pending on
\* both breakpoint lists.
C25_EnvelopesOrdered ==
    \A c \in Calls :
        (AtIterationStart(c) /\ Length(st[c]) >= 2) =>
            LET s == st[c] IN
            /\ RLe(s.output_low_curr, s.output_up_curr)
            /\ RLe(s.output_low_first, s.output_up_first)
            /\ ~(/\ RLt(In(s, s.i), s.output_low_curr)
                 /\ RLt(s.output_up_curr, In(s, s.i)))
            /\ Pending(s, s.indstart_low, s.j_low)
                 \cap Pending(s, s.indstart_up, s.j_up) = {}

C25_Witness ==
    \E c \in Calls :
        LET s == st[c] IN
        /\ AtIterationStart(c) /\ Length(s) >= 2
        /\ s.pc = "L26"
        /\ s.commits >= 1
        /\ RLt(In(s, s.i), s.output_low_curr)
        /\ RLe(s.output_low_curr, s.output_up_curr)
        /\ Pending(s, s.indstart_up, s.j_up) # {}

\* The positions of output[] below indjseg: the committed ones.
Committed(s) ==
    IF s.indjseg = Unset THEN {}
    ELSE {k \in DOMAIN s.output : k < s.indjseg}

\* C26: a committed output position (index below indjseg) is never written
\* again: every step of the main pass and of the closing step leaves
\* output[k] unchanged for k below the current indjseg, and indjseg never
\* moves back.
C26_CommittedIsFinal ==
    [][\A c \in Calls :
         (InFlight(c) /\ st[c].indjseg # Unset /\ st'[c].pc # "L6") =>
             /\ st'[c].indjseg >= st[c].indjseg
             /\ \A k \in Committed(st[c]) :
                    st'[c].output[k] = st[c].output[k]]_vars

C26_Witness ==
    \E c \in Calls :
        LET s == st[c] IN
        /\ Returned(c) /\ PosLambda(s) /\ Length(s) >= 2
        /\ s.commits >= 2
        /\ s.indjseg = Length(s)
        /\ Committed(s) = DOMAIN s.output
        /\ ~IsConstant(s.output)

\* The positions of output[] that the statement about to run in state s
\* reads: output[ind] in a fold-back test, output[indjseg] when a first
\* value is reloaded after a fill loop.
OutputReads(s) ==
    IF s.pc \in UpFoldLines /\ ULt(s.jseg, s.j_up)
      THEN {s.indstart_up[s.j_up - 1]}
    ELSE IF s.pc \in LowFoldLines /\ ULt(s.jseg, s.j_low)
      THEN {s.indstart_low[s.j_low - 1]}
    ELSE IF s.pc \in FillLines /\ ~ULt(s.indjseg, s.indjseg2)
      THEN {s.indjseg}
    ELSE {}

\* C27: for n >= 2 and lambda > 0, every read of output[k] reads a position
\* that was written earlier in the same call (the buffer starts unwritten).
C27_ReadsAfterWrites ==
    \A c \in Calls :
        Tracking(c) =>
            \A k \in OutputReads(st[c]) :
                /\ k \in DOMAIN st[c].output
                /\ st[c].output[k] # Uninit

C27_Witness ==
    \E c \in Calls :
        LET s == st[c] IN
        /\ Tracking(c)
        /\ s.pc \in UpFoldLines
        /\ OutputReads(s) # {}
        /\ \A k \in OutputReads(s) : k > s.indjseg /\ s.output[k] # Uninit
        /\ \E k \in DOMAIN s.output : s.output[k] = Uninit

\* The unsigned subtractions a - b that the statement about to run in
\* state s evaluates in a running-mean update, as <<a, b>>.
Subtractions(s) ==
    LET upRun == {<<s.i, s.indstart_up[s.j_up]>>}
        lowRun == {<<s.i, s.indstart_low[s.j_low]>>}
        fold(a, j) == {<<s.i, a[j - 1]>>, <<a[j], a[j - 1]>>}
        commit(a) == {<<a[s.jseg + 1], s.indjseg>>, <<s.i, a[s.jseg + 1]>>}
    IN
    CASE s.pc = "L26" ->
           IF ULt(s.i, s.width)
              /\ (~RLe(s.output_low_curr, In(s, s.i))
                  \/ RLe(In(s, s.i), s.output_up_curr))
             THEN upRun ELSE {}
      [] s.pc = "L47" -> lowRun
      [] s.pc = "L84" ->
           IF /\ ~RLe(RAdd(In(s, s.i), s.lambda), s.output_low_curr)
              /\ ~RLe(s.output_up_curr, RSub(In(s, s.i), s.lambda))
             THEN lowRun ELSE {}
      [] s.pc = "L103" ->
           IF /\ ULt(s.jseg, s.j_low)
              /\ RLe(s.output[s.indstart_low[s.j_low - 1]], s.output_low_curr)
             THEN fold(s.indstart_low, s.j_low)
           ELSE IF s.j_low = s.jseg
                   /\ ~RLe(s.output_low_curr, s.output_up_first)
             THEN upRun ELSE {}
      [] s.pc = "L49" ->
           IF /\ ULt(s.jseg, s.j_low)
              /\ RLe(s.output[s.indstart_low[s.j_low - 1]], s.output_low_curr)
             THEN fold(s.indstart_low, s.j_low) ELSE {}
      [] s.pc \in UpFoldLines ->
           IF /\ ULt(s.jseg, s.j_up)
              /\ RLe(s.output_up_curr, s.output[s.indstart_up[s.j_up - 1]])
             THEN fold(s.indstart_up, s.j_up) ELSE {}
      [] s.pc \in {"L35", "L71"} ->
           IF RLe(s.output_up_curr, s.output_low_first)
              /\ ULt(s.jseg, s.j_low)
             THEN commit(s.indstart_low) ELSE {}
      [] s.pc = "L53" ->
           IF RLe(s.output_up_first, s.output_low_curr)
              /\ ULt(s.jseg, s.j_up)
             THEN commit(s.indstart_up) ELSE {}
      [] OTHER -> {}

\* The subtractions of Subtractions(s) whose result is a numerator of a
\* fold-back weight, (indstart[j] - ind), and has to be positive.
FoldNumerators(s) ==
    IF s.pc \in UpFoldLines /\ ULt(s.jseg, s.j_up)
      THEN {<<s.indstart_up[s.j_up], s.indstart_up[s.j_up - 1]>>}
    ELSE IF s.pc \in LowFoldLines /\ ULt(s.jseg, s.j_low)
      THEN {<<s.indstart_low[s.j_low], s.indstart_low[s.j_low - 1]>>}
    ELSE {}

\* The subtractions of Subtractions(s) that, plus one, are a divisor:
\* those with minuend i.
DivisorTerms(s) == {d \in Subtractions(s) : d[1] = s.i}

\* C28: for n >= 2 and lambda > 0 no unsigned subtraction of a running-mean
\* update wraps around (the subtrahend is at most the minuend, both are
\* proper indices), every divisor (i - x + 1) is at least 1, and
\* ind < indstart[j] where (indstart[j] - ind) is evaluated.
C28_NoWrapAround ==
    \A c \in Calls :
        Tracking(c) =>
            LET s == st[c] IN
            /\ \A d \in Subtractions(s) :
                   0 <= d[2] /\ d[2] <= d[1] /\ d[1] <= Length(s) - 1
            /\ \A d \in DivisorTerms(s) : d[1] - d[2] + 1 >= 1
            /\ \A d \in FoldNumerators(s) \cap Subtractions(s) : d[2] < d[1]

C28_Witness ==
    \E c \in Calls :
        LET s == st[c] IN
        /\ Tracking(c)
        /\ s.pc \in UpFoldLines \cup LowFoldLines
        /\ FoldNumerators(s) \cap Subtractions(s) # {}
        /\ \A d \in FoldNumerators(s) \cap Subtractions(s) : d[1] - d[2] >= 2
        /\ \A d \in DivisorTerms(s) : d[1] - d[2] + 1 >= 3

====
